---- MODULE Spec2Model ----
(***************************************************************************)
(* News-Dashboard (src/src/App.tsx): the RSS normalizer (fetchRSS), the    *)
(* aggregator (loadNews), the rotation effect with its interval and its    *)
(* delayed commit, and the display window (currentNews).                   *)
(*                                                                         *)
(* Two specifications share the definitions:                               *)
(*   Spec      the component from mount on: eight concurrent fetchers,     *)
(*             the join, the state updates, the timers, the unmount;       *)
(*   SpecLoad  the aggregation pipeline alone, started with every fetcher  *)
(*             settled, over exhaustively enumerated small feed documents  *)
(*             and generated larger ones.                                  *)
(***************************************************************************)
EXTENDS Integers, Sequences, FiniteSets, TLC

(***************************************************************************)
(* Program constants                                                       *)
(***************************************************************************)
NEWS_BOTTOM_LEFT_COUNT == 6
NEWS_TOP_RIGHT_COUNT == 1
NEWS_MIDDLE_RIGHT_COUNT == 6
NEWS_BOTTOM_RIGHT_EXTRA == 9
NEWS_TOTAL_DISPLAYED ==
  NEWS_BOTTOM_LEFT_COUNT + NEWS_TOP_RIGHT_COUNT + NEWS_MIDDLE_RIGHT_COUNT + NEWS_BOTTOM_RIGHT_EXTRA
ROTATION_INTERVAL_MS == 120000
NEWS_PRELOAD_COUNT == NEWS_TOTAL_DISPLAYED * 5
transitionDuration == 500

\* RSS_SOURCES holds eight entries; a source is known by its index in it.
NumSources == 8
Sources == 1..NumSources
RSS_SOURCES ==
  <<"ANSA Italia", "LA STAMPA Mondo", "IL SOLE 24 ORE Economia", "CORRIERE SPORT",
    "REPUBBLICA Cronaca", "BBC WORLD", "CNN Tech", "REUTERS">>

(***************************************************************************)
(* Bounds of the model                                                     *)
(***************************************************************************)
\* publish instants of the feed entries are 0..MaxDate (seconds)
MaxDate == 2
\* entries per generated feed document
MaxDocLen == 16
\* entries in an exhaustively enumerated small load
MaxEntries == 3
\* interval firings followed in one run
MaxTicks == 6

(***************************************************************************)
(* Text values.  getTextContent and getAttribute yield a string or nothing *)
(* (undefined / null); both nothing and "" are falsy.                      *)
(***************************************************************************)
Undefined == "<undefined>"

Truthy(v) == v # Undefined /\ v # ""

\* a || b
Or2(a, b) == IF Truthy(a) THEN a ELSE b

\* Date texts.  Two formats denote the same instant; anything else does not
\* parse.  getTime() of a parsed date is in milliseconds; of an invalid
\* Date it is NaN.
NaN == -1

IsoText(t) == "1970-01-01T00:00:0" \o ToString(t) \o "Z"

RfcText(t) == "Thu, 01 Jan 1970 00:00:0" \o ToString(t) \o " GMT"

GarbageText == "ieri sera"

DateInstants == 0..MaxDate

\* new Date(dateString).getTime()
DateParse(s) ==
  IF \E t \in DateInstants : s = IsoText(t) \/ s = RfcText(t)
  THEN 1000 * (CHOOSE t \in DateInstants : s = IsoText(t) \/ s = RfcText(t))
  ELSE NaN

(***************************************************************************)
(* A raw feed entry is what the tag and attribute lookups of fetchRSS and  *)
(* getMediaUrl return for one <item>/<entry> node.  n is the entry's       *)
(* position in its document; it stands for the identity of the node.       *)
(***************************************************************************)
RawEntry(n, title, href, linkText, guid, id, enclosure, mediaContent, linkImage, pubDate, updated) ==
  [n |-> n, title |-> title, href |-> href, linkText |-> linkText, guid |-> guid,
   id |-> id, enclosure |-> enclosure, mediaContent |-> mediaContent,
   linkImage |-> linkImage, pubDate |-> pubDate, updated |-> updated]

\* getMediaUrl: enclosure url, else media:content/content url|src, else the
\* href of a link with rel="enclosure" or an image type.
getMediaUrl(e) ==
  IF Truthy(e.enclosure) THEN e.enclosure
  ELSE IF Truthy(e.mediaContent) THEN e.mediaContent
  ELSE e.linkImage

(***************************************************************************)
(* JavaScript array helpers                                                *)
(***************************************************************************)
Min(a, b) == IF a < b THEN a ELSE b

\* Array.prototype.slice(from, to) for 0 <= from, with the clamping of both
\* ends to the array's length (0-based, to exclusive).
Slice(arr, from, to) ==
  LET lo == Min(from, Len(arr))
      hi == Min(to, Len(arr))
  IN  IF lo >= hi THEN << >> ELSE SubSeq(arr, lo + 1, hi)

\* results.flat() of the per-source arrays, in RSS_SOURCES order
RECURSIVE FlatFrom(_, _)
FlatFrom(arrs, s) ==
  IF s > NumSources THEN << >> ELSE arrs[s] \o FlatFrom(arrs, s + 1)

Flat(arrs) == FlatFrom(arrs, 1)

(***************************************************************************)
(* Normalizer: the map / filter / slice of fetchRSS                        *)
(***************************************************************************)
Null == [null |-> TRUE]

\* mutant of mapItem: the link is not checked
mapItem_linkUnchecked(e, sourceName) ==
  LET link == Or2(Or2(Or2(e.href, e.linkText), e.guid), e.id)
      dateString == Or2(e.pubDate, e.updated)
  IN  IF ~Truthy(e.title) \/ ~Truthy(dateString) THEN Null
      ELSE [title |-> e.title, link |-> link, enclosureUrl |-> getMediaUrl(e),
            source |-> sourceName, pubDate |-> DateParse(dateString), n |-> e.n]

\* the callback of items.map
mapItem(e, sourceName) ==
  LET title == e.title
      link == Or2(Or2(Or2(e.href, e.linkText), e.guid), e.id)
      enclosureUrl == getMediaUrl(e)
      dateString == Or2(e.pubDate, e.updated)
  IN  IF ~Truthy(title) \/ ~Truthy(link) \/ ~Truthy(dateString) THEN Null
      ELSE \* new Date(dateString) || new Date(): a Date object is truthy even
           \* when invalid, so the right operand is never evaluated
           [title |-> title, link |-> link, enclosureUrl |-> enclosureUrl,
            source |-> sourceName, pubDate |-> DateParse(dateString), n |-> e.n]

\* mutant of normalize: the slice that caps a source's items is left out
normalize_uncapped(doc, sourceName) ==
  LET mapped == [i \in 1..Len(doc) |-> mapItem(doc[i], sourceName)]
  IN  SelectSeq(mapped, LAMBDA x : x # Null)

normalize(doc, sourceName) ==
  LET mapped == [i \in 1..Len(doc) |-> mapItem(doc[i], sourceName)]
      kept == SelectSeq(mapped, LAMBDA x : x # Null)
  IN  Slice(kept, 0, NEWS_PRELOAD_COUNT * 2)

\* mutant of fetchRSS: no catch, a transport failure rejects the promise
fetchRSS_noCatch(doc, sourceName, transportOk) ==
  IF transportOk
  THEN [state |-> "fulfilled", value |-> normalize(doc, sourceName)]
  ELSE [state |-> "rejected", value |-> << >>]

\* mutant of fetchRSS: the catch hands on what the document holds
fetchRSS_keepsItems(doc, sourceName, transportOk) ==
  [state |-> "fulfilled", value |-> normalize(doc, sourceName)]

\* fetchRSS as a whole: the promise it returns once the transport has
\* answered.  Every failure inside the try block is caught, logged and
\* turned into an empty array, so the promise is always fulfilled.
fetchRSS(doc, sourceName, transportOk) ==
  IF transportOk
  THEN [state |-> "fulfilled", value |-> normalize(doc, sourceName)]
  ELSE [state |-> "fulfilled", value |-> << >>]

PendingPromise == [state |-> "pending", value |-> << >>]

(***************************************************************************)
(* Aggregator: the pure part of loadNews                                   *)
(***************************************************************************)
\* results.flat().filter(item => item.title)
flatFilter(values) == SelectSeq(Flat(values), LAMBDA x : Truthy(x.title))

\* the comparator (a, b) => b.pubDate.getTime() - a.pubDate.getTime();
\* a NaN result counts as +0 in Array.prototype.sort
compareFn(a, b) ==
  IF a.pubDate = NaN \/ b.pubDate = NaN THEN 0 ELSE b.pubDate - a.pubDate

\* A stable sort under a consistent comparator: the elements that sort
\* before all others, in their order, then the rest sorted alike.
RECURSIVE StableSort(_)
StableSort(arr) ==
  IF arr = << >> THEN << >>
  ELSE LET top == CHOOSE i \in 1..Len(arr) :
                    \A j \in 1..Len(arr) : compareFn(arr[i], arr[j]) <= 0
           firsts == SelectSeq(arr, LAMBDA y : compareFn(arr[top], y) = 0)
           others == SelectSeq(arr, LAMBDA y : compareFn(arr[top], y) # 0)
       IN  firsts \o StableSort(others)

\* The comparator is a consistent one unless an invalid date meets two
\* different valid ones: it then ties with both while they do not tie.
ConsistentComparator(arr) ==
  \/ \A i \in 1..Len(arr) : arr[i].pubDate # NaN
  \/ \A i, j \in 1..Len(arr) :
       (arr[i].pubDate # NaN /\ arr[j].pubDate # NaN) => arr[i].pubDate = arr[j].pubDate

ArrayPermutations(arr) ==
  LET n == Len(arr)
      P == {p \in [1..n -> 1..n] : \A i, j \in 1..n : i # j => p[i] # p[j]}
  IN  {[i \in 1..n |-> arr[p[i]]] : p \in P}

\* allFetchedNews.sort(compareFn): a stable sort; with an inconsistent
\* comparator the order is implementation-defined.
SortOutcomes(arr) ==
  IF ConsistentComparator(arr) THEN {StableSort(arr)} ELSE ArrayPermutations(arr)

\* mutant of withImage: the filter on enclosureUrl is left out
withImage_all(arr) == arr

withImage(arr) == SelectSeq(arr, LAMBDA x : Truthy(x.enclosureUrl))

withoutImage(arr) == SelectSeq(arr, LAMBDA x : ~Truthy(x.enclosureUrl))

\* mutant of balanceLoop: the loop ends when either list is exhausted
RECURSIVE balanceLoop_stopEarly(_, _, _, _, _)
balanceLoop_stopEarly(pool, i, j, newsWithImage, newsWithoutImage) ==
  IF Len(pool) < NEWS_PRELOAD_COUNT /\ (i < Len(newsWithImage) /\ j < Len(newsWithoutImage))
  THEN LET p1 == Append(pool, newsWithImage[i + 1])
           take == Len(p1) < NEWS_PRELOAD_COUNT
           p2 == IF take THEN Append(p1, newsWithoutImage[j + 1]) ELSE p1
       IN  balanceLoop_stopEarly(p2, i + 1, IF take THEN j + 1 ELSE j,
                                 newsWithImage, newsWithoutImage)
  ELSE pool

\* the while loop that fills balancedPool
RECURSIVE balanceLoop(_, _, _, _, _)
balanceLoop(pool, i, j, newsWithImage, newsWithoutImage) ==
  IF Len(pool) < NEWS_PRELOAD_COUNT /\ (i < Len(newsWithImage) \/ j < Len(newsWithoutImage))
  THEN LET p1 == IF i < Len(newsWithImage) THEN Append(pool, newsWithImage[i + 1]) ELSE pool
           i1 == IF i < Len(newsWithImage) THEN i + 1 ELSE i
           take == Len(p1) < NEWS_PRELOAD_COUNT /\ j < Len(newsWithoutImage)
           p2 == IF take THEN Append(p1, newsWithoutImage[j + 1]) ELSE p1
           j1 == IF take THEN j + 1 ELSE j
       IN  balanceLoop(p2, i1, j1, newsWithImage, newsWithoutImage)
  ELSE pool

balance(sorted) == balanceLoop(<< >>, 0, 0, withImage(sorted), withoutImage(sorted))

\* mutant of selectFinalPool: >= for >
selectFinalPool_atLeast(balancedPool, allFetched) ==
  IF Len(balancedPool) >= NEWS_TOTAL_DISPLAYED
  THEN balancedPool
  ELSE Slice(allFetched, 0, NEWS_PRELOAD_COUNT)

\* const finalPool = balancedPool.length > NEWS_TOTAL_DISPLAYED ? ... : ...
selectFinalPool(balancedPool, allFetched) ==
  IF Len(balancedPool) > NEWS_TOTAL_DISPLAYED
  THEN balancedPool
  ELSE Slice(allFetched, 0, NEWS_PRELOAD_COUNT)

(***************************************************************************)
(* Rotation and display window                                             *)
(***************************************************************************)
\* mutant of rotationEffectArms: one window is taken to be enough to rotate
rotationEffectArms_oneWindow(length, loading) ==
  ~(length < NEWS_TOTAL_DISPLAYED \/ loading)

\* the guard of the rotation effect: TRUE when it arms the interval
rotationEffectArms(length, loading) ==
  ~(length < NEWS_TOTAL_DISPLAYED * 2 \/ loading)

\* mutant of nextIndex: the offset is never wrapped
nextIndex_noWrap(prevIndex, length) ==
  prevIndex + NEWS_TOTAL_DISPLAYED

\* mutant of nextIndex: wraps only past the end (> for >=)
nextIndex_wrapLate(prevIndex, length) ==
  LET newIndex == prevIndex + NEWS_TOTAL_DISPLAYED
  IN  IF newIndex > length THEN 0 ELSE newIndex

\* the updater passed to setStartIndex; length is the allNews.length the
\* effect's closure captured
nextIndex(prevIndex, length) ==
  LET newIndex == prevIndex + NEWS_TOTAL_DISPLAYED
  IN  IF newIndex >= length THEN 0 ELSE newIndex

\* new Date() of a placeholder: an instant later than every feed date
Now == 1000 * (MaxDate + 1)

Placeholder ==
  [title |-> "Notizia in aggiornamento...", link |-> "#", enclosureUrl |-> Undefined,
   source |-> "System", pubDate |-> Now, n |-> 0]

\* mutant of padSlice: the padding loop left out
padSlice_noPadding(newsSlice) == newsSlice

\* the while loop that pads newsSlice
padSlice(newsSlice) ==
  newsSlice \o [k \in 1..(NEWS_TOTAL_DISPLAYED - Len(newsSlice)) |-> Placeholder]

\* mutant of currentNews: a short slice is not continued from the start
currentNews_noWrap(news, index) ==
  padSlice(Slice(news, index, index + NEWS_TOTAL_DISPLAYED))

\* the useMemo body
currentNews(news, index) ==
  LET first == Slice(news, index, index + NEWS_TOTAL_DISPLAYED)
      wrapped ==
        IF Len(first) < NEWS_TOTAL_DISPLAYED /\ Len(news) >= NEWS_TOTAL_DISPLAYED
        THEN first \o Slice(news, 0, NEWS_TOTAL_DISPLAYED - Len(first))
        ELSE first
  IN  padSlice(wrapped)

\* mutant of layoutRegions: currentSliceIndex is not advanced past the
\* single top-right item
layoutRegions_noAdvance(window) ==
  LET i0 == 0
      i1 == i0 + NEWS_BOTTOM_LEFT_COUNT
      i2 == i1
      i3 == i2 + NEWS_MIDDLE_RIGHT_COUNT
  IN  [newsBottomLeft       |-> Slice(window, i0, i0 + NEWS_BOTTOM_LEFT_COUNT),
       newsTopRight         |-> Slice(window, i1, i1 + NEWS_TOP_RIGHT_COUNT),
       newsMiddleRight      |-> Slice(window, i2, i2 + NEWS_MIDDLE_RIGHT_COUNT),
       newsBottomRightExtra |-> Slice(window, i3, i3 + NEWS_BOTTOM_RIGHT_EXTRA)]

\* the four slices of the current window, cut while currentSliceIndex
\* advances by the size of each region
layoutRegions(window) ==
  LET i0 == 0
      i1 == i0 + NEWS_BOTTOM_LEFT_COUNT
      i2 == i1 + NEWS_TOP_RIGHT_COUNT
      i3 == i2 + NEWS_MIDDLE_RIGHT_COUNT
  IN  [newsBottomLeft       |-> Slice(window, i0, i0 + NEWS_BOTTOM_LEFT_COUNT),
       newsTopRight         |-> Slice(window, i1, i1 + NEWS_TOP_RIGHT_COUNT),
       newsMiddleRight      |-> Slice(window, i2, i2 + NEWS_MIDDLE_RIGHT_COUNT),
       newsBottomRightExtra |-> Slice(window, i3, i3 + NEWS_BOTTOM_RIGHT_EXTRA)]

\* mutant of intervalMayFire: the interval's callback may run while a
\* dataChangeTimeout is still armed
intervalMayFire_anyOrder(pending) == TRUE

\* Timers run in the order they fall due.  The commit armed by one firing
\* of the interval falls due transitionDuration later, the next firing
\* ROTATION_INTERVAL_MS later.
intervalMayFire(pending) ==
  pending = 0 \/ transitionDuration >= ROTATION_INTERVAL_MS

\* mutant of promiseAllSettled: the join of Promise.race / Promise.any
promiseAllSettled_first(ps) == \E s \in Sources : ps[s].state # "pending"

\* await Promise.all(promises) is over: all fulfilled, or one rejected
promiseAllSettled(ps) ==
  \/ \A s \in Sources : ps[s].state = "fulfilled"
  \/ \E s \in Sources : ps[s].state = "rejected"

(***************************************************************************)
(* Feed documents the transport returns                                    *)
(***************************************************************************)
\* The k-th entry of source s's generated document.  Every seventh entry
\* has no link at all; the link, the media and the date come from the
\* different places the Normalizer looks at.
GenEntry(s, k) ==
  LET d == (s + 2 * k) % (MaxDate + 1)
      url == "https://news.example/" \o ToString(s) \o "/" \o ToString(k)
      noLink == k % 7 = 0
  IN  RawEntry(k, "Titolo " \o ToString(k),
        IF ~noLink /\ k % 4 = 1 THEN url ELSE Undefined,
        IF ~noLink /\ k % 4 = 2 THEN url ELSE "",
        IF ~noLink /\ k % 4 = 3 THEN url ELSE Undefined,
        IF ~noLink /\ k % 4 = 0 THEN url ELSE Undefined,
        IF (s + k) % 2 = 1 /\ k % 3 # 0 THEN url \o ".jpg" ELSE Undefined,
        IF (s + k) % 2 = 1 /\ k % 3 = 0 THEN url \o ".png" ELSE Undefined,
        Undefined,
        IF k % 2 = 0 THEN IsoText(d) ELSE Undefined,
        IF k % 2 = 0 THEN Undefined ELSE RfcText(d))

GenDoc(s, len) == [k \in 1..len |-> GenEntry(s, k)]

\* Small entries, one per case of the Normalizer (n is set on use).
EntryKinds ==
  {RawEntry(0, "A", "https://a", Undefined, Undefined, Undefined, "a.jpg", Undefined, Undefined,
            IsoText(t), Undefined) : t \in DateInstants}
  \cup
  {RawEntry(0, "B", Undefined, "", "urn:b", Undefined, Undefined, Undefined, Undefined,
            Undefined, RfcText(t)) : t \in DateInstants}
  \cup
  {RawEntry(0, "C", Undefined, "https://c", Undefined, Undefined, Undefined, Undefined, Undefined,
            GarbageText, Undefined),
   RawEntry(0, Undefined, "https://d", Undefined, Undefined, Undefined, Undefined, Undefined,
            Undefined, IsoText(0), Undefined),
   RawEntry(0, "", "https://e", Undefined, Undefined, Undefined, "e.jpg", Undefined, Undefined,
            IsoText(0), Undefined),
   RawEntry(0, "F", Undefined, "", Undefined, "", Undefined, "f.png", Undefined,
            IsoText(0), Undefined),
   RawEntry(0, "G", "https://g", Undefined, Undefined, Undefined, Undefined, Undefined, Undefined,
            Undefined, "")}

SmallEntrySeqs == UNION {[1..len -> EntryKinds] : len \in 0..MaxEntries}

Renumber(doc) == [k \in 1..Len(doc) |-> [doc[k] EXCEPT !.n = k]]

NoDoc == << >>

\* a small load: the first half of the entries is the first source's
\* document, the rest the second's, the other documents hold no entry
SmallDoc(es, s) ==
  LET h == (Len(es) + 1) \div 2
  IN  IF s = 1 THEN Renumber(SubSeq(es, 1, h))
      ELSE IF s = 2 THEN Renumber(SubSeq(es, h + 1, Len(es)))
      ELSE NoDoc

SmallFeed(es) == [kind |-> "small", entries |-> es]

\* a generated load: the first m sources answer len entries each
GenFeed(len, m) == [kind |-> "gen", len |-> len, m |-> m]

\* the document source s answers with
DocOf(f, s) ==
  IF f.kind = "small" THEN SmallDoc(f.entries, s)
  ELSE IF s <= f.m THEN GenDoc(s, f.len) ELSE NoDoc

(***************************************************************************)
(* State                                                                   *)
(***************************************************************************)
VARIABLES
  feed,             \* what the sources' URLs answer with (see DocOf)
  promises,         \* the promises of RSS_SOURCES.map(fetchRSS)
  errorLog,         \* sources for which console.error was called
  loadPc,           \* loadNews: "await", "setLoading", "done", "thrown"
  allFetchedNews,   \* local of loadNews, after the sort
  balancedPool,     \* local of loadNews, after the while loop
  allNews,          \* useState
  startIndex,       \* useState
  isFading,         \* useState
  isLoading,        \* useState
  mounted,          \* the component is mounted
  intervalArmed,    \* the effect's setInterval is armed (not cleared)
  closureLen,       \* allNews.length captured by the effect that armed it
  pendingTimeouts,  \* dataChangeTimeout timers armed and not yet fired
  commitPc,         \* the timeout callback: "idle", "setFading"
  fires,            \* number of interval firings so far
  ticks             \* number of offset commits so far

vars ==
  <<feed, promises, errorLog, loadPc, allFetchedNews, balancedPool, allNews, startIndex,
    isFading, isLoading, mounted, intervalArmed, closureLen, pendingTimeouts, commitPc,
    fires, ticks>>

\* the state after the first render and its effects, before any fetch settles
Mounted(f) ==
  /\ feed = f
  /\ errorLog = {}
  /\ loadPc = "await"
  /\ allFetchedNews = << >>
  /\ balancedPool = << >>
  /\ allNews = << >>
  /\ startIndex = 0
  /\ isFading = FALSE
  /\ isLoading = TRUE
  /\ mounted = TRUE
  /\ intervalArmed = rotationEffectArms(0, TRUE)
  /\ closureLen = 0
  /\ pendingTimeouts = 0
  /\ commitPc = "idle"
  /\ fires = 0
  /\ ticks = 0

\* lengths of the generated documents
DocLens == {len \in 0..MaxDocLen : len % 3 = 0 \/ len = MaxDocLen}

Init ==
  \E len \in DocLens :
    /\ Mounted(GenFeed(len, NumSources))
    /\ promises = [s \in Sources |-> PendingPromise]

\* no callback is in the middle of its run
Quiescent == loadPc # "setLoading" /\ commitPc = "idle"

(***************************************************************************)
(* Actions                                                                 *)
(***************************************************************************)
\* The transport of source s answers or fails, and fetchRSS settles.
FetchSettle(s) ==
  /\ Quiescent
  /\ promises[s].state = "pending"
  /\ \E transportOk \in BOOLEAN :
       /\ promises' = [promises EXCEPT ![s] = fetchRSS(DocOf(feed, s), RSS_SOURCES[s], transportOk)]
       /\ errorLog' = IF transportOk THEN errorLog ELSE errorLog \cup {s}
  /\ UNCHANGED <<feed, loadPc, allFetchedNews, balancedPool, allNews, startIndex, isFading,
                 isLoading, mounted, intervalArmed, closureLen, pendingTimeouts, commitPc,
                 fires, ticks>>

\* loadNews resumes after await Promise.all: flat, filter, sort, balance,
\* select, then setAllNews and setIsLoading.  The two updates are rendered
\* together when React batches them and one after the other when it does
\* not; the rotation effect runs after each render that changed its
\* dependencies.  Updates of an unmounted component are dropped.
LoadNewsResume ==
  /\ Quiescent
  /\ loadPc = "await"
  /\ promiseAllSettled(promises)
  /\ IF \E s \in Sources : promises[s].state = "rejected"
     THEN /\ loadPc' = "thrown"
          /\ UNCHANGED <<allFetchedNews, balancedPool, allNews, isLoading, intervalArmed,
                         closureLen>>
     ELSE \E sorted \in SortOutcomes(flatFilter([s \in Sources |-> promises[s].value])) :
            LET balanced == balance(sorted)
                finalPool == selectFinalPool(balanced, sorted)
            IN  /\ allFetchedNews' = sorted
                /\ balancedPool' = balanced
                /\ IF ~mounted
                   THEN /\ loadPc' = "done"
                        /\ UNCHANGED <<allNews, isLoading, intervalArmed, closureLen>>
                   ELSE /\ allNews' = finalPool
                        /\ \E batched \in BOOLEAN :
                             /\ isLoading' = ~batched
                             /\ loadPc' = IF batched THEN "done" ELSE "setLoading"
                        /\ intervalArmed' = rotationEffectArms(Len(allNews'), isLoading')
                        /\ closureLen' = IF intervalArmed' THEN Len(allNews') ELSE closureLen
  /\ UNCHANGED <<feed, promises, errorLog, startIndex, isFading, mounted, pendingTimeouts,
                 commitPc, fires, ticks>>

\* setIsLoading(false) rendered on its own
LoadNewsSetLoading ==
  /\ loadPc = "setLoading"
  /\ loadPc' = "done"
  /\ isLoading' = FALSE
  /\ intervalArmed' = rotationEffectArms(Len(allNews), isLoading')
  /\ closureLen' = IF intervalArmed' THEN Len(allNews) ELSE closureLen
  /\ UNCHANGED <<feed, promises, errorLog, allFetchedNews, balancedPool, allNews, startIndex,
                 isFading, mounted, pendingTimeouts, commitPc, fires, ticks>>

\* the interval fires: rotateNews sets isFading and arms the commit
IntervalFire ==
  /\ Quiescent
  /\ intervalArmed
  /\ intervalMayFire(pendingTimeouts)
  /\ fires < MaxTicks
  /\ fires' = fires + 1
  /\ isFading' = TRUE
  /\ pendingTimeouts' = pendingTimeouts + 1
  /\ UNCHANGED <<feed, promises, errorLog, loadPc, allFetchedNews, balancedPool, allNews,
                 startIndex, isLoading, mounted, intervalArmed, closureLen, commitPc, ticks>>

\* mutant of TimeoutFire: the commit leaves isFading as it is
TimeoutFire_keepsFading ==
  /\ Quiescent
  /\ pendingTimeouts > 0
  /\ pendingTimeouts' = pendingTimeouts - 1
  /\ IF ~mounted
     THEN UNCHANGED <<startIndex, ticks>>
     ELSE /\ startIndex' = nextIndex(startIndex, closureLen)
          /\ ticks' = ticks + 1
  /\ UNCHANGED <<feed, promises, errorLog, loadPc, allFetchedNews, balancedPool, allNews,
                 isLoading, mounted, intervalArmed, closureLen, fires, isFading, commitPc>>

\* a dataChangeTimeout fires: setStartIndex(updater), setIsFading(false)
TimeoutFire ==
  /\ Quiescent
  /\ pendingTimeouts > 0
  /\ pendingTimeouts' = pendingTimeouts - 1
  /\ IF ~mounted
     THEN UNCHANGED <<startIndex, isFading, commitPc, ticks>>
     ELSE /\ startIndex' = nextIndex(startIndex, closureLen)
          /\ ticks' = ticks + 1
          /\ \E batched \in BOOLEAN :
               /\ isFading' = ~batched
               /\ commitPc' = IF batched THEN "idle" ELSE "setFading"
  /\ UNCHANGED <<feed, promises, errorLog, loadPc, allFetchedNews, balancedPool, allNews,
                 isLoading, mounted, intervalArmed, closureLen, fires>>

\* setIsFading(false) rendered on its own
TimeoutSetFading ==
  /\ commitPc = "setFading"
  /\ commitPc' = "idle"
  /\ isFading' = FALSE
  /\ UNCHANGED <<feed, promises, errorLog, loadPc, allFetchedNews, balancedPool, allNews,
                 startIndex, isLoading, mounted, intervalArmed, closureLen, pendingTimeouts,
                 fires, ticks>>

\* The component is torn down: the effect's cleanup clears the interval.
\* The cleanup rotateNews returns is never called, so an armed
\* dataChangeTimeout stays armed.
Unmount ==
  /\ Quiescent
  /\ mounted
  /\ mounted' = FALSE
  /\ intervalArmed' = FALSE
  /\ UNCHANGED <<feed, promises, errorLog, loadPc, allFetchedNews, balancedPool, allNews,
                 startIndex, isFading, isLoading, closureLen, pendingTimeouts, commitPc,
                 fires, ticks>>

Next ==
  \/ \E s \in Sources : FetchSettle(s)
  \/ LoadNewsResume
  \/ LoadNewsSetLoading
  \/ IntervalFire
  \/ TimeoutFire
  \/ TimeoutSetFading
  \/ Unmount

Spec == Init /\ [][Next]_vars

\* The host's event loop runs a timeout that is due, and React renders an
\* update that was set.
FairSpec == Spec /\ WF_vars(TimeoutFire) /\ WF_vars(TimeoutSetFading)

(***************************************************************************)
(* The aggregation pipeline alone                                          *)
(***************************************************************************)
\* the length of a document that holds more valid entries than fetchRSS
\* keeps of one source (six of seven generated entries are valid)
LongDocLen == ((NEWS_PRELOAD_COUNT * 2) * 7) \div 6 + 7

LoadFeeds ==
  {SmallFeed(es) : es \in SmallEntrySeqs}
  \cup {GenFeed(len, m) : len \in 0..MaxDocLen, m \in Sources}
  \cup {GenFeed(LongDocLen, 1)}

InitLoad ==
  \E f \in LoadFeeds :
    /\ Mounted(f)
    /\ promises = [s \in Sources |-> fetchRSS(DocOf(f, s), RSS_SOURCES[s], TRUE)]

NextLoad ==
  \/ LoadNewsResume
  \/ LoadNewsSetLoading
  \/ IntervalFire
  \/ TimeoutFire
  \/ TimeoutSetFading

SpecLoad == InitLoad /\ [][NextLoad]_vars

(***************************************************************************)
(* Properties                                                              *)
(***************************************************************************)
CeilDiv(a, b) == (a + b - 1) \div b

Elems(arr) == {arr[i] : i \in 1..Len(arr)}

\* loadNews has computed its locals
LoadComputed == loadPc \in {"setLoading", "done"}

\* the fetchers that have settled without logging an error
Succeeded == {s \in Sources : promises[s].state = "fulfilled" /\ s \notin errorLog}

\* C1: in every reachable state the display window computed from the pool
\* and the current offset has exactly NEWS_TOTAL_DISPLAYED entries.
C1_WindowLength == Len(currentNews(allNews, startIndex)) = NEWS_TOTAL_DISPLAYED

\* the window of a rotated offset runs past the end of a pool that is not a
\* whole number of windows, and is wrapped
C1_Witness ==
  /\ mounted
  /\ startIndex > 0
  /\ startIndex + NEWS_TOTAL_DISPLAYED > Len(allNews)
  /\ Len(currentNews(allNews, startIndex)) = NEWS_TOTAL_DISPLAYED

\* C2: while the pool has fewer than 2 * NEWS_TOTAL_DISPLAYED items, or the
\* loading flag is true, no rotation timer is armed, none has fired, the
\* phase is not Fading and the offset is 0.
C2_NoRotationBelowThreshold ==
  (Len(allNews) < 2 * NEWS_TOTAL_DISPLAYED \/ isLoading) =>
    /\ ~intervalArmed
    /\ pendingTimeouts = 0
    /\ fires = 0
    /\ ticks = 0
    /\ ~isFading
    /\ startIndex = 0

\* a finished load whose pool fills one window and not two
C2_Witness ==
  /\ mounted
  /\ loadPc = "done"
  /\ ~isLoading
  /\ Len(allNews) >= NEWS_TOTAL_DISPLAYED
  /\ Len(allNews) < 2 * NEWS_TOTAL_DISPLAYED
  /\ ~intervalArmed

\* C3: from offset 0 with a pool of length L >= 2 * NEWS_TOTAL_DISPLAYED,
\* the offset is 0 again after exactly ceil(L / NEWS_TOTAL_DISPLAYED)
\* committed rotation ticks and is not 0 after any smaller positive number.
C3_FullCycle ==
  LET cycle == CeilDiv(Len(allNews), NEWS_TOTAL_DISPLAYED)
  IN  Len(allNews) >= 2 * NEWS_TOTAL_DISPLAYED =>
        /\ ticks = cycle => startIndex = 0
        /\ (0 < ticks /\ ticks < cycle) => startIndex # 0

\* a full cycle over a pool that is not a whole number of windows
C3_Witness ==
  /\ Len(allNews) >= 2 * NEWS_TOTAL_DISPLAYED
  /\ Len(allNews) % NEWS_TOTAL_DISPLAYED # 0
  /\ ticks = CeilDiv(Len(allNews), NEWS_TOTAL_DISPLAYED)
  /\ startIndex = 0

\* C4: failures of any subset of fetchers never fail the load: a failed
\* fetcher contributes an empty array, loadNews never throws, and when it
\* is done the loading flag is false and the pool holds items of the
\* succeeded fetchers only, all of them up to NEWS_PRELOAD_COUNT.
C4_PartialFailure ==
  LET okItems == UNION {Elems(normalize(DocOf(feed, s), RSS_SOURCES[s])) : s \in Succeeded}
  IN  /\ loadPc # "thrown"
      /\ \A s \in errorLog : promises[s] = [state |-> "fulfilled", value |-> << >>]
      /\ (mounted /\ loadPc = "done") =>
           /\ ~isLoading
           /\ Elems(allNews) \subseteq okItems
           /\ Cardinality(Elems(allNews)) = Len(allNews)
           /\ Len(allNews) = Min(NEWS_PRELOAD_COUNT, Cardinality(okItems))

\* seven fetchers failed, one returned three valid items: a 3-item pool
C4_Witness ==
  /\ mounted
  /\ loadPc = "done"
  /\ ~isLoading
  /\ Cardinality(errorLog) = NumSources - 1
  /\ Cardinality(Succeeded) = 1
  /\ Len(allNews) = 3

\* C5: every item of the pool has a non-empty title and a non-empty link,
\* and no feed entry whose title or whose link (href, link, guid, id) is
\* missing or empty is in the pool.
C5_TitleAndLink ==
  /\ \A i \in 1..Len(allNews) : Truthy(allNews[i].title) /\ Truthy(allNews[i].link)
  /\ \A s \in Sources :
       LET doc == DocOf(feed, s)
       IN  \A k \in 1..Len(doc) :
             (\/ ~Truthy(doc[k].title)
              \/ (~Truthy(doc[k].href) /\ ~Truthy(doc[k].linkText)
                  /\ ~Truthy(doc[k].guid) /\ ~Truthy(doc[k].id)))
             => \A i \in 1..Len(allNews) :
                  ~(allNews[i].source = RSS_SOURCES[s] /\ allNews[i].n = k)

\* a pool with an item whose link is its guid, from a document that also
\* held an entry without any link
C5_Witness ==
  /\ loadPc = "done"
  /\ \E i \in 1..Len(allNews) : allNews[i].link = "urn:b"
  /\ \E k \in 1..Len(DocOf(feed, 1)) :
       LET e == DocOf(feed, 1)[k]
       IN  Truthy(e.title) /\ ~Truthy(Or2(Or2(Or2(e.href, e.linkText), e.guid), e.id))

\* C6: no item without a valid publishedAt is materialized or reaches the
\* pool (an entry whose date text does not parse is dropped).
C6_ValidDateInPool ==
  /\ \A s \in Sources : \A i \in 1..Len(promises[s].value) : promises[s].value[i].pubDate # NaN
  /\ \A i \in 1..Len(allNews) : allNews[i].pubDate # NaN

\* round-robin of two lists, the first list first; the rest of the longer
\* list follows once the shorter is exhausted
RoundRobin(A, B) ==
  LET m == Min(Len(A), Len(B))
  IN  [p \in 1..(Len(A) + Len(B)) |->
        IF p <= 2 * m
        THEN IF p % 2 = 1 THEN A[(p + 1) \div 2] ELSE B[p \div 2]
        ELSE IF Len(A) > m THEN A[p - m] ELSE B[p - m]]

\* C7: the balanced pool is the round-robin interleave of withMedia and
\* withoutMedia, starting with withMedia, cut at NEWS_PRELOAD_COUNT items.
C7_RoundRobin ==
  LoadComputed =>
    balancedPool = Slice(RoundRobin(withImage(allFetchedNews), withoutImage(allFetchedNews)),
                         0, NEWS_PRELOAD_COUNT)

\* withMedia = [i1, i2], withoutMedia = [n1, n2, n3] gives [i1, n1, i2, n2, n3]
C7_Witness ==
  LET wi == withImage(allFetchedNews)
      wo == withoutImage(allFetchedNews)
  IN  /\ LoadComputed
      /\ Len(wi) = 2
      /\ Len(wo) = 3
      /\ balancedPool = <<wi[1], wo[1], wi[2], wo[2], wo[3]>>

\* C8: the final pool is the balanced pool when that has more than
\* NEWS_TOTAL_DISPLAYED items, and otherwise the first NEWS_PRELOAD_COUNT
\* items of the sorted list.
C8_FinalPool ==
  (mounted /\ LoadComputed) =>
    /\ Len(balancedPool) > NEWS_TOTAL_DISPLAYED => allNews = balancedPool
    /\ Len(balancedPool) <= NEWS_TOTAL_DISPLAYED =>
         allNews = Slice(allFetchedNews, 0, NEWS_PRELOAD_COUNT)

\* a balanced pool of exactly NEWS_TOTAL_DISPLAYED items is discarded for
\* the sorted list, which is in another order
C8_Witness ==
  /\ mounted
  /\ LoadComputed
  /\ Len(balancedPool) = NEWS_TOTAL_DISPLAYED
  /\ allNews = allFetchedNews
  /\ allNews # balancedPool

\* a >= b of two getTime() values: false when either is NaN
Geq(a, b) == a # NaN /\ b # NaN /\ a >= b

IndexIn(arr, x) == CHOOSE i \in 1..Len(arr) : arr[i] = x

IsSubsequence(sub, arr) ==
  /\ Elems(sub) \subseteq Elems(arr)
  /\ \A i, j \in 1..Len(sub) : i < j => IndexIn(arr, sub[i]) < IndexIn(arr, sub[j])

\* C9: the sorted list is a permutation of the concatenation of the fetcher
\* outputs, non-increasing in publishedAt, items of equal publishedAt in
\* their order of the concatenation; withMedia and withoutMedia are
\* subsequences of it.
C9_SortedStable ==
  LET concat == Flat([s \in Sources |-> promises[s].value])
      sorted == allFetchedNews
  IN  LoadComputed =>
        /\ Len(sorted) = Len(concat)
        /\ Elems(sorted) = Elems(concat)
        /\ \A i, j \in 1..Len(sorted) :
             i < j =>
               /\ Geq(sorted[i].pubDate, sorted[j].pubDate)
               /\ sorted[i].pubDate = sorted[j].pubDate =>
                    IndexIn(concat, sorted[i]) < IndexIn(concat, sorted[j])
        /\ IsSubsequence(withImage(sorted), sorted)
        /\ IsSubsequence(withoutImage(sorted), sorted)

\* C10: the join is a barrier: while any fetcher is pending the loading
\* flag is true and the pool is empty, and whenever the loading flag is
\* false loadNews is done and the pool is the final pool it selected.
C10_Barrier ==
  /\ (\E s \in Sources : promises[s].state = "pending") =>
       (isLoading /\ allNews = << >> /\ loadPc = "await")
  /\ ~isLoading =>
       (loadPc = "done" /\ allNews = selectFinalPool(balancedPool, allFetchedNews))

\* all fetchers but one have settled, some with items, and the load waits
C10_Witness ==
  /\ mounted
  /\ Cardinality({s \in Sources : promises[s].state = "pending"}) = 1
  /\ \E s \in Sources : promises[s].value # << >>
  /\ isLoading
  /\ allNews = << >>

\* C11: when every source has failed, the load still completes with an
\* empty pool, no rotation timer is armed or fires (offset 0, never
\* Fading), and the display window is NEWS_TOTAL_DISPLAYED placeholders
\* (link "#", source "System") and nothing else.
C11_TotalFailure ==
  LET window == currentNews(allNews, startIndex)
  IN  /\ loadPc # "thrown"
      /\ (mounted /\ loadPc = "done" /\ errorLog = Sources) =>
           /\ ~isLoading
           /\ allNews = << >>
           /\ ~intervalArmed
           /\ pendingTimeouts = 0
           /\ fires = 0
           /\ startIndex = 0
           /\ ~isFading
           /\ Len(window) = NEWS_TOTAL_DISPLAYED
           /\ \A k \in 1..Len(window) :
                window[k].link = "#" /\ window[k].source = "System"

\* all eight sources had entries to give, all eight failed, loadNews is done
C11_Witness ==
  /\ mounted
  /\ loadPc = "done"
  /\ errorLog = Sources
  /\ \A s \in Sources : DocOf(feed, s) # << >>
  /\ ~isLoading
  /\ Len(currentNews(allNews, startIndex)) = NEWS_TOTAL_DISPLAYED

\* C12: for a pool of length L >= NEWS_TOTAL_DISPLAYED the k-th entry of
\* the window is pool[(offset + k) mod L], so the window holds no
\* placeholder and no pool position twice; for a shorter pool the window is
\* the pool followed by placeholders; after one tick from offset 0 the
\* window starts at pool position NEWS_TOTAL_DISPLAYED.
C12_WindowContent ==
  LET window == currentNews(allNews, startIndex)
      L == Len(allNews)
  IN  /\ L >= NEWS_TOTAL_DISPLAYED =>
           /\ \A k \in 0..(NEWS_TOTAL_DISPLAYED - 1) :
                window[k + 1] = allNews[((startIndex + k) % L) + 1]
           /\ \A k \in 1..Len(window) : window[k] # Placeholder
           /\ Cardinality(Elems(window)) = NEWS_TOTAL_DISPLAYED
      /\ L < NEWS_TOTAL_DISPLAYED =>
           /\ SubSeq(window, 1, L) = allNews
           /\ \A k \in (L + 1)..NEWS_TOTAL_DISPLAYED : window[k] = Placeholder
      /\ (L >= 2 * NEWS_TOTAL_DISPLAYED /\ ticks = 1) =>
           window[1] = allNews[NEWS_TOTAL_DISPLAYED + 1]

\* the last window of a cycle runs past the end of the pool and ends with
\* the pool's first items
C12_Witness ==
  LET window == currentNews(allNews, startIndex)
  IN  /\ mounted
      /\ startIndex > 0
      /\ Len(allNews) - startIndex < NEWS_TOTAL_DISPLAYED
      /\ window[1] = allNews[startIndex + 1]
      /\ window[Len(allNews) - startIndex + 1] = allNews[1]

\* the entries of a document that the Normalizer does not drop
ValidEntries(doc) ==
  {k \in 1..Len(doc) : mapItem(doc[k], "") # Null}

\* C13: after any load the pool holds at most NEWS_PRELOAD_COUNT items,
\* whichever branch produced it, and each source contributes at most
\* 2 * NEWS_PRELOAD_COUNT items to the aggregation.
C13_Capacity ==
  /\ Len(allNews) <= NEWS_PRELOAD_COUNT
  /\ Len(balancedPool) <= NEWS_PRELOAD_COUNT
  /\ \A s \in Sources : Len(promises[s].value) <= 2 * NEWS_PRELOAD_COUNT

\* one source answered more valid entries than it may contribute; its first
\* 2 * NEWS_PRELOAD_COUNT are aggregated and the pool is full
C13_Witness ==
  /\ loadPc = "done"
  /\ Cardinality(ValidEntries(DocOf(feed, 1))) > 2 * NEWS_PRELOAD_COUNT
  /\ Len(promises[1].value) = 2 * NEWS_PRELOAD_COUNT
  /\ Len(allFetchedNews) = 2 * NEWS_PRELOAD_COUNT
  /\ Len(allNews) = NEWS_PRELOAD_COUNT

Advanced(o, L) ==
  IF o + NEWS_TOTAL_DISPLAYED >= L THEN 0 ELSE o + NEWS_TOTAL_DISPLAYED

\* C16: each firing of the rotation timer sets the phase to Fading; every
\* Fading state of the living component is eventually followed by exactly
\* one commit, which sets the offset to offset + NEWS_TOTAL_DISPLAYED, or to
\* 0 when that is at least the pool's length, and sets the phase back to
\* Displaying; the offset changes at no other moment.
C16_FadeThenCommit ==
  /\ [][fires' = fires + 1 => isFading']_vars
  /\ [][startIndex' # startIndex =>
          /\ isFading /\ pendingTimeouts' = pendingTimeouts - 1
          /\ ticks' = ticks + 1]_vars
  /\ [][ticks' = ticks + 1 =>
          /\ startIndex' = Advanced(startIndex, Len(allNews))
          /\ (~isFading' \/ commitPc' = "setFading")]_vars
  /\ [](mounted => ticks + pendingTimeouts = fires)
  /\ [](commitPc = "setFading" => (isFading /\ ENABLED TimeoutSetFading))
  /\ (mounted /\ isFading) ~> (~mounted \/ (~isFading /\ ticks = fires))

\* two firings were each followed by their commit, the second one wrapping
\* the offset, and the phase is Displaying again
C16_Witness ==
  /\ mounted /\ fires = 2 /\ ticks = 2 /\ pendingTimeouts = 0
  /\ ~isFading /\ commitPc = "idle"
  /\ startIndex = 0 /\ Len(allNews) >= 2 * NEWS_TOTAL_DISPLAYED

MalformedDateEntries(doc) ==
  {k \in 1..Len(doc) :
     /\ Truthy(doc[k].title)
     /\ Truthy(Or2(Or2(Or2(doc[k].href, doc[k].linkText), doc[k].guid), doc[k].id))
     /\ Truthy(Or2(doc[k].pubDate, doc[k].updated))
     /\ DateParse(Or2(doc[k].pubDate, doc[k].updated)) = NaN}

\* C18: an entry whose publish-date text is present but malformed is kept
\* by the Normalizer and is given the current time as its publishedAt.
C18_MalformedDateBecomesNow ==
  \A s \in Sources :
    \A k \in MalformedDateEntries(DocOf(feed, s)) :
      k <= 2 * NEWS_PRELOAD_COUNT =>
        \E i \in 1..Len(promises[s].value) :
          /\ promises[s].value[i].n = k
          /\ promises[s].value[i].title = DocOf(feed, s)[k].title
          /\ promises[s].value[i].pubDate = Now

\* C19: in every reachable state the offset is a non-negative multiple of
\* NEWS_TOTAL_DISPLAYED and is 0 or less than the pool's length, so the
\* first entry of the window is a pool item whenever the pool is not empty.
C19_OffsetInPool ==
  /\ startIndex >= 0
  /\ startIndex % NEWS_TOTAL_DISPLAYED = 0
  /\ startIndex = 0 \/ startIndex < Len(allNews)
  /\ Len(allNews) > 0 =>
       /\ currentNews(allNews, startIndex)[1] = allNews[startIndex + 1]
       /\ currentNews(allNews, startIndex)[1] # Placeholder

\* the offset was advanced twice and was wrapped to 0 before that
C19_Witness ==
  /\ mounted /\ ticks >= 4
  /\ startIndex = 2 * NEWS_TOTAL_DISPLAYED
  /\ startIndex < Len(allNews)
  /\ currentNews(allNews, startIndex)[1] = allNews[startIndex + 1]

\* C20: the balanced pool has exactly min(NEWS_PRELOAD_COUNT, N) items, N
\* being the number of aggregated items, and holds no item twice; so the
\* fallback is taken only when N <= NEWS_TOTAL_DISPLAYED, and then the pool
\* holds the same N items as the balanced pool it replaces, in another
\* order at most, and is no larger.
C20_BalancedPoolSize ==
  LoadComputed =>
    LET N == Len(allFetchedNews)
    IN  /\ Len(balancedPool) = Min(NEWS_PRELOAD_COUNT, N)
        /\ Cardinality(Elems(balancedPool)) = Len(balancedPool)
        /\ Elems(balancedPool) \subseteq Elems(allFetchedNews)
        /\ (mounted /\ allNews # balancedPool) =>
             /\ N <= NEWS_TOTAL_DISPLAYED
             /\ Len(allNews) = N
             /\ Len(allNews) = Len(balancedPool)
             /\ Elems(allNews) = Elems(balancedPool)
        /\ Len(balancedPool) <= NEWS_TOTAL_DISPLAYED => N <= NEWS_TOTAL_DISPLAYED

\* the fallback replaced a balanced pool of fewer than NEWS_TOTAL_DISPLAYED
\* items by the same items in the order of the sort
C20_Witness ==
  /\ mounted /\ LoadComputed
  /\ Len(allFetchedNews) > 2
  /\ Len(allFetchedNews) < NEWS_TOTAL_DISPLAYED
  /\ Len(balancedPool) = Len(allFetchedNews)
  /\ allNews = allFetchedNews
  /\ allNews # balancedPool
  /\ Elems(allNews) = Elems(balancedPool)

\* more items were aggregated than the balanced pool may hold
C20_FullPoolReached ==
  LoadComputed /\ Len(allFetchedNews) > NEWS_PRELOAD_COUNT
  /\ Len(balancedPool) = NEWS_PRELOAD_COUNT

====
